---- MODULE Spec2Model ----
(***************************************************************************)
(* A model of the OpenAI -> Gemini chat-completion adapter:                *)
(*   - the request conversion pipeline (merge, map, fixup, pop, send) of   *)
(*     Adapter.ChatCompletion / Adapter.ChatCompletionStream (openai.go,   *)
(*     part_000) and of the older gemini.ChatCompletion (main.go);         *)
(*   - the credential-scoped client cache (createClient, Close);           *)
(*   - the streaming producer goroutine and the HTTP relay loop.           *)
(* Texts are TLA+ strings, image URLs are sequences of tokens.             *)
(***************************************************************************)
EXTENDS Integers, Sequences, FiniteSets, TLC

(***************************************************************************)
(* Bounds of the model.                                                    *)
(***************************************************************************)
\* longest request message list that is enumerated
MaxMsgs == 3
\* number of concurrent createClient calls
NumCalls == 3
\* longest provider stream (number of increments)
MaxIncr == 2
\* number of requests that dump their body concurrently
NumDumps == 2

(***************************************************************************)
(* Variables.                                                              *)
(***************************************************************************)
VARIABLES
    \* ---- one request through the conversion pipeline
    handler,    \* which handler serves the request, "" when idle
    req,        \* the request's messages
    steps,      \* the calls the handler made, in order
    merged,     \* result of the Message Merger
    mapped,     \* result of the Role/Content Mapper
    fixed,      \* result of buildContent (after the fixup)
    history,    \* sc.History handed to the provider session
    sentParts,  \* the parts of the send-call
    called,     \* the provider send-call was made for this request
    outcome,    \* "idle" | "ok" | "streaming" | "error" | "panic" | "exit"
    errKind,    \* the error returned to the caller, "" when none
    resp,       \* the wire response returned to the caller
    genaiResp,  \* the provider's answer to the send-call (error or candidates)
    server,     \* which HTTP handler took the request, "" when idle
    status,     \* the HTTP status the handler answered with, 0 when none
    ctxKey,     \* ctx.Value(apiKeyContextKey) of the call: {} when nil
    \* ---- client cache (sync.Map clients) and createClient calls
    clients,    \* credential -> set holding the stored client, {} when absent
    installs,   \* credential -> number of stores into the map (history)
    constructed,\* set of clients built by genai.NewClient
    closed,     \* set of clients whose Close was called
    cpc,        \* call -> position in createClient
    ckey,       \* call -> credential of the call's context
    cg,         \* call -> set holding the client the call built (g)
    cret,       \* call -> set holding the client the call returned
    \* ---- streaming
    stream,     \* the increments the provider iterator will yield
    failAt,     \* number of increments after which the iterator errors, -1 never
    pulled,     \* increments pulled from the iterator so far
    iterErr,    \* iter.Next() returned an error other than iterator.Done
    prodPc,     \* producer goroutine position
    prodVal,    \* chunk the producer is sending
    chClosed,   \* the channel is closed
    closeCount, \* number of close(ch) calls
    sentChunks, \* chunks handed over the channel, in order
    consPc,     \* HTTP relay loop position
    consVal,    \* chunk the relay loop received
    written,    \* events written to the client, in order
    cancelled,  \* the request context is cancelled
    pullsAfterCancel, \* iter.Next() calls begun after the cancellation
    \* ---- parameter mapping (loadOrStoreModel)
    genReq,     \* the request's generation fields
    genBy,      \* which loadOrStoreModel ran, "" when none did
    genErr,     \* loadOrStoreModel returned an error
    genModel,   \* the *genai.GenerativeModel it returned
    \* ---- request dumps (WriteIfNotExists)
    files,      \* the data directory: per name, the file's content or NoFile
    dirMade,    \* the data directory exists
    wpc,        \* per dumping request: position inside WriteIfNotExists
    wname,      \* per dumping request: the name argument
    wbody       \* per dumping request: the body argument

convVars == <<handler, req, steps, merged, mapped, fixed, history, sentParts,
              called, outcome, errKind, resp, genaiResp, server, status,
              ctxKey>>
cacheVars == <<clients, installs, constructed, closed, cpc, ckey, cg, cret>>
streamVars == <<stream, failAt, pulled, iterErr, prodPc, prodVal, chClosed,
                closeCount, sentChunks, consPc, consVal, written, cancelled,
                pullsAfterCancel>>
paramVars == <<genReq, genBy, genErr, genModel>>
dumpVars == <<files, dirMade, wpc, wname, wbody>>
vars == <<convVars, cacheVars, streamVars, paramVars, dumpVars>>

(***************************************************************************)
(* Roles and role tables.                                                  *)
(***************************************************************************)
openaiRoleSystem == "system"
openaiRoleAssistant == "assistant"
openaiRoleUser == "user"
genaiRoleUser == "user"
genaiRoleModel == "model"
systemPrompt == "I will ask you a question. Please answer it."

\* a role the tables do not know (the wire schema also has tool/function)
UnknownRole == "tool"

toGenaiRole ==
    (openaiRoleSystem :> genaiRoleUser)
    @@ (openaiRoleAssistant :> genaiRoleModel)
    @@ (openaiRoleUser :> genaiRoleUser)

\* Go map lookup: the zero value "" for a missing key
Lookup(m, k) == IF k \in DOMAIN m THEN m[k] ELSE ""

(***************************************************************************)
(* Wire-format messages and parts.                                         *)
(***************************************************************************)
ChatMessagePartTypeText == "text"
ChatMessagePartTypeImageURL == "image_url"

TextPart(t) == [Type |-> ChatMessagePartTypeText, Text |-> t, URL |-> <<>>]
ImagePart(u) == [Type |-> ChatMessagePartTypeImageURL, Text |-> "", URL |-> u]
OtherPart == [Type |-> "audio", Text |-> "", URL |-> <<>>]

Msg(r, c, mc) == [Role |-> r, Content |-> c, MultiContent |-> mc]

\* image URLs as token sequences: a well-formed data URI, one whose payload
\* is not base64, and one without the ';' separator
GoodURL == <<"data:", "image/", "png", ";", "base64,", "iVBOR">>
BadPayloadURL == <<"data:", "image/", "png", ";", "base64,", "@@">>
NoSepURL == <<"http://x/y.png">>
ValidB64 == {"iVBOR"}

Messages ==
    { Msg(openaiRoleSystem, "be terse", <<>>),
      Msg(openaiRoleUser, "hello", <<>>),
      Msg(openaiRoleUser, "world", <<>>),
      Msg(openaiRoleUser, "2+2?", <<>>),
      Msg(openaiRoleAssistant, "hi", <<>>),
      Msg(openaiRoleAssistant, "", <<TextPart("there")>>),
      Msg(openaiRoleUser, "", <<TextPart("look"), ImagePart(GoodURL)>>),
      Msg(openaiRoleUser, "", <<ImagePart(BadPayloadURL)>>),
      Msg(openaiRoleUser, "", <<ImagePart(NoSepURL)>>),
      Msg(openaiRoleUser, "", <<OtherPart>>),
      Msg(UnknownRole, "result", <<>>) }

Requests == UNION { [1..n -> Messages] : n \in 0..MaxMsgs }

(***************************************************************************)
(* Message Merger: mergeOpenaiMessages (openai.go) and mergeOpenAIMessages *)
(* (main.go).  Both fold a message into the previous output message when   *)
(* the two map to the same provider role.                                  *)
(***************************************************************************)
geminiRolesByOpenAIRoles ==
    ("system" :> "user") @@ ("assistant" :> "model") @@ ("user" :> "user")

\* a plausible slip: two plain texts are joined with a space
MergeStepSpace(prev, curr) ==
    LET lhs == Len(prev.MultiContent) > 0
        rhs == Len(curr.MultiContent) > 0
    IN CASE lhs /\ rhs ->
              [prev EXCEPT !.MultiContent = @ \o curr.MultiContent]
         [] lhs /\ ~rhs ->
              [prev EXCEPT !.MultiContent = Append(@, TextPart(curr.Content))]
         [] ~lhs /\ rhs ->
              [prev EXCEPT !.MultiContent = <<TextPart(prev.Content)>> \o curr.MultiContent,
                           !.Content = ""]
         [] OTHER -> [prev EXCEPT !.Content = @ \o " " \o curr.Content]

\* a plausible slip: the previous plain text is put behind the current parts
MergeStepTextLast(prev, curr) ==
    LET lhs == Len(prev.MultiContent) > 0
        rhs == Len(curr.MultiContent) > 0
    IN CASE lhs /\ rhs ->
              [prev EXCEPT !.MultiContent = @ \o curr.MultiContent]
         [] lhs /\ ~rhs ->
              [prev EXCEPT !.MultiContent = Append(@, TextPart(curr.Content))]
         [] ~lhs /\ rhs ->
              [prev EXCEPT !.MultiContent = Append(curr.MultiContent, TextPart(prev.Content)),
                           !.Content = ""]
         [] OTHER -> [prev EXCEPT !.Content = @ \o "\n" \o curr.Content]

\* a plausible slip: a plain text that follows parts is kept as the message's
\* plain text instead of being appended as a text part
MergeStepKeepText(prev, curr) ==
    LET lhs == Len(prev.MultiContent) > 0
        rhs == Len(curr.MultiContent) > 0
    IN CASE lhs /\ rhs ->
              [prev EXCEPT !.MultiContent = @ \o curr.MultiContent]
         [] lhs /\ ~rhs ->
              [prev EXCEPT !.Content = curr.Content]
         [] ~lhs /\ rhs ->
              [prev EXCEPT !.MultiContent = <<TextPart(prev.Content)>> \o curr.MultiContent,
                           !.Content = ""]
         [] OTHER -> [prev EXCEPT !.Content = @ \o "\n" \o curr.Content]

\* the switch of the merge branch: prev is res[len(res)-1], curr the message
MergeStep(prev, curr) ==
    LET pmc == prev.MultiContent
        cmc == curr.MultiContent
        pc == prev.Content
        cc == curr.Content
        lhs == Len(pmc) > 0
        rhs == Len(cmc) > 0
        pmc2 == CASE lhs /\ rhs -> pmc \o cmc
                  [] lhs /\ ~rhs -> Append(pmc, TextPart(cc))
                  [] ~lhs /\ rhs -> <<TextPart(pc)>> \o cmc
                  [] OTHER -> pmc
        pc2 == CASE ~lhs /\ rhs -> ""
                 [] ~lhs /\ ~rhs -> pc \o "\n" \o cc
                 [] OTHER -> pc
    IN [prev EXCEPT !.MultiContent = pmc2, !.Content = pc2]

\* a plausible slip: track the wire role of the message, not the mapped role
TrackWireRole(role, curr) == curr.Role

\* the role remembered when a message opens a new output message
TrackRole(role, curr) == role

\* a plausible slip: a message that opens a new output message is normalised
\* to multi-part form
OpenedAsParts(res, curr) ==
    Append(res, IF Len(curr.MultiContent) > 0 THEN curr
                ELSE Msg(curr.Role, "", <<TextPart(curr.Content)>>))

\* res = append(res, curr)
Opened(res, curr) == Append(res, curr)

RECURSIVE MergeLoop(_, _, _, _, _)
\* the for loop over msgs[i..]; table is the role table of the variant
MergeLoop(table, msgs, i, prevRole, res) ==
    IF i > Len(msgs) THEN [st |-> "ok", msgs |-> res]
    ELSE LET curr == msgs[i] IN
         IF curr.Role \notin DOMAIN table
         THEN [st |-> "unknown", msgs |-> <<>>]
         ELSE LET role == table[curr.Role] IN
              IF role = prevRole
              THEN MergeLoop(table, msgs, i + 1, prevRole,
                       [res EXCEPT ![Len(res)] = MergeStep(res[Len(res)], curr)])
              ELSE MergeLoop(table, msgs, i + 1, TrackRole(role, curr),
                       Opened(res, curr))

\* the outcome of the loop, with st the way the variant treats an unknown role
OnUnknown(r, st) == IF r.st = "unknown" THEN [st |-> st, msgs |-> <<>>] ELSE r

\* openai.go: an unknown role ends in log.Fatalf, which exits the process
mergeOpenaiMessages(msgs) ==
    OnUnknown(MergeLoop(toGenaiRole, msgs, 1, "", <<>>), "exit")

\* main.go: an unknown role is returned as an ErrInvalidParams error
mergeOpenAIMessages(msgs) ==
    OnUnknown(MergeLoop(geminiRolesByOpenAIRoles, msgs, 1, "", <<>>), "error")

(***************************************************************************)
(* Part Converter and Role/Content Mapper.                                 *)
(***************************************************************************)
Text(t) == [kind |-> "Text", text |-> t, mime |-> <<>>, data |-> <<>>]
Blob(m, d) == [kind |-> "Blob", text |-> "", mime |-> m, data |-> d]
\* a slot of make([]genai.Part, n) that was never assigned
NilPart == [kind |-> "nil", text |-> "", mime |-> <<>>, data |-> <<>>]

Content(r, ps) == [Role |-> r, Parts |-> ps]

RECURSIVE IndexOf(_, _, _)
\* first position >= i of token t in s, 0 when absent
IndexOf(s, t, i) ==
    IF i > Len(s) THEN 0 ELSE IF s[i] = t THEN i ELSE IndexOf(s, t, i + 1)

\* strings.ReplaceAll(s, t, "") on token sequences
RemoveAll(s, t) == SelectSeq(s, LAMBDA x : x # t)

\* strings.TrimPrefix(s, t) on token sequences
TrimPrefix(s, t) == IF Len(s) > 0 /\ s[1] = t THEN Tail(s) ELSE s

\* decodeBase64Image: cut at ';', strip "data:" and "base64,", decode
decodeBase64Image(b64) ==
    LET k == IndexOf(b64, ";", 1) IN
    IF k = 0 THEN [ok |-> FALSE, mimeType |-> <<>>, blob |-> <<>>]
    ELSE LET lhs == SubSeq(b64, 1, k - 1)
             rhs == SubSeq(b64, k + 1, Len(b64))
             mimeType == RemoveAll(lhs, "data:")
             b64Image == RemoveAll(rhs, "base64,")
         IN [ok |-> \A j \in 1..Len(b64Image) : b64Image[j] \in ValidB64,
             mimeType |-> mimeType,
             blob |-> b64Image]

\* the image part of a decoded data URI d; st is the status when d failed
ImageData(d, st) ==
    IF ~d.ok THEN [st |-> st, part |-> NilPart]
    ELSE [st |-> "ok", part |-> Blob(TrimPrefix(d.mimeType, "image/"), d.blob)]

\* part_000: log.Fatalf when the image does not decode
toGenaiImageData(b64img) == ImageData(decodeBase64Image(b64img), "exit")

\* part_000: panic on a part type that is neither text nor image_url
toGenaiPart(mp) ==
    CASE mp.Type = ChatMessagePartTypeText -> [st |-> "ok", part |-> Text(mp.Text)]
      [] mp.Type = ChatMessagePartTypeImageURL -> toGenaiImageData(mp.URL)
      [] OTHER -> [st |-> "panic", part |-> NilPart]

RECURSIVE FirstBad(_, _)
\* status of the first element of rs (records with st) that is not ok
FirstBad(rs, i) ==
    IF i > Len(rs) THEN "ok"
    ELSE IF rs[i].st # "ok" THEN rs[i].st ELSE FirstBad(rs, i + 1)

\* the turn of role r made of the converted parts ps, failed when one failed
ContentOf(r, ps) ==
    [st |-> FirstBad(ps, 1),
     content |-> Content(r, [j \in 1..Len(ps) |-> ps[j].part])]

\* the turn list made of the converted turns cs, failed when one failed
ContentsOf(cs) ==
    [st |-> FirstBad(cs, 1), contents |-> [i \in 1..Len(cs) |-> cs[i].content]]

\* part_000 toGenaiContent
toGenaiContent(msg) ==
    IF Len(msg.MultiContent) = 0
    THEN [st |-> "ok",
          content |-> Content(Lookup(toGenaiRole, msg.Role), <<Text(msg.Content)>>)]
    ELSE ContentOf(Lookup(toGenaiRole, msg.Role),
                   [j \in 1..Len(msg.MultiContent) |-> toGenaiPart(msg.MultiContent[j])])

\* part_000 toGenaiContents
toGenaiContents(msgs) ==
    ContentsOf([i \in 1..Len(msgs) |-> toGenaiContent(msgs[i])])

\* main.go openaiToGenaiContent: an undecodable image is a returned error;
\* a part of any other type leaves its slot nil
openaiToGenaiPart(mp) ==
    CASE mp.Type = ChatMessagePartTypeText -> [st |-> "ok", part |-> Text(mp.Text)]
      [] mp.Type = ChatMessagePartTypeImageURL ->
            ImageData(decodeBase64Image(mp.URL), "error")
      [] OTHER -> [st |-> "ok", part |-> NilPart]

openaiToGenaiContent(msg) ==
    IF Len(msg.MultiContent) > 0
    THEN ContentOf(Lookup(geminiRolesByOpenAIRoles, msg.Role),
                   [j \in 1..Len(msg.MultiContent) |->
                       openaiToGenaiPart(msg.MultiContent[j])])
    ELSE [st |-> "ok",
          content |-> Content(Lookup(geminiRolesByOpenAIRoles, msg.Role),
                              <<Text(msg.Content)>>)]

openaiToGenaiContents(msgs) ==
    ContentsOf([i \in 1..Len(msgs) |-> openaiToGenaiContent(msgs[i])])

isMultiModal(contents) ==
    \E i \in 1..Len(contents) :
        \E j \in 1..Len(contents[i].Parts) : contents[i].Parts[j].kind = "Blob"

(***************************************************************************)
(* Turn-Order Fixup and History/Tail Splitter.                             *)
(***************************************************************************)
\* a plausible slip: the synthetic turn is appended instead of prepended
AppendPrompt(contents) ==
    contents \o <<Content(genaiRoleUser, <<Text(systemPrompt)>>)>>

\* the return of the not-user-first branch
PrependPrompt(contents) ==
    <<Content(genaiRoleUser, <<Text(systemPrompt)>>)>> \o contents

\* a plausible slip: the last turn is not looked at
ReorderUnchecked(contents) ==
    IF Len(contents) = 0 THEN [st |-> "panic", contents |-> <<>>]
    ELSE IF contents[1].Role = genaiRoleUser
         THEN [st |-> "ok", contents |-> contents]
         ELSE [st |-> "ok", contents |-> PrependPrompt(contents)]

\* a plausible slip: the synthetic turn is prepended whatever the first turn is
ReorderAlways(contents) ==
    IF Len(contents) = 0 THEN [st |-> "panic", contents |-> <<>>]
    ELSE IF contents[Len(contents)].Role # genaiRoleUser
         THEN [st |-> "panic", contents |-> <<>>]
         ELSE [st |-> "ok", contents |-> PrependPrompt(contents)]

\* part_000 reorderContentByRole; main.go fixContentRoleOrder is the same
\* code. contents[len(contents)-1] on an empty slice is a runtime panic.
reorderContentByRole(contents) ==
    IF Len(contents) = 0 THEN [st |-> "panic", contents |-> <<>>]
    ELSE IF contents[Len(contents)].Role # genaiRoleUser
         THEN [st |-> "panic", contents |-> <<>>]
         ELSE IF contents[1].Role = genaiRoleUser
              THEN [st |-> "ok", contents |-> contents]
              ELSE [st |-> "ok", contents |-> PrependPrompt(contents)]

fixContentRoleOrder(contents) == reorderContentByRole(contents)

\* buildContent after its third call: f is the fixup's result
BuildFixed(m, c, f) ==
    [st |-> f.st, merged |-> m.msgs, mapped |-> c.contents,
     contents |-> f.contents, steps |-> <<"merge", "map", "fixup">>]

\* buildContent after its second call: c is the mapper's result
BuildMapped(m, c) ==
    IF c.st # "ok"
    THEN [st |-> c.st, merged |-> m.msgs, mapped |-> <<>>, contents |-> <<>>,
          steps |-> <<"merge", "map">>]
    ELSE BuildFixed(m, c, reorderContentByRole(c.contents))

\* buildContent after its first call: m is the merger's result
BuildMerged(m) ==
    IF m.st # "ok"
    THEN [st |-> m.st, merged |-> <<>>, mapped |-> <<>>, contents |-> <<>>,
          steps |-> <<"merge">>]
    ELSE BuildMapped(m, toGenaiContents(m.msgs))

\* part_000 buildContent: merge, map, fixup; the first failure ends it (an
\* exit or a panic inside a callee never returns to buildContent)
buildContent(msgs) == BuildMerged(mergeOpenaiMessages(msgs))

\* a plausible slip: split off the first element instead of the last
PopFirst(vs) == [rest |-> Tail(vs), last |-> Head(vs)]

\* openai.go pop: vs[:len(vs)-1], vs[len(vs)-1]
pop(vs) == [rest |-> SubSeq(vs, 1, Len(vs) - 1), last |-> vs[Len(vs)]]


(***************************************************************************)
(* Response Assembler.                                                     *)
(***************************************************************************)
\* a plausible slip: recitation mapped to stop and other left out
FinishReasonsSlip ==
    ("FinishReasonUnspecified" :> "null")
    @@ ("FinishReasonStop" :> "stop")
    @@ ("FinishReasonMaxTokens" :> "length")
    @@ ("FinishReasonSafety" :> "content_filter")
    @@ ("FinishReasonRecitation" :> "stop")

toOpenaiFinishReason ==
    ("FinishReasonUnspecified" :> "null")
    @@ ("FinishReasonStop" :> "stop")
    @@ ("FinishReasonMaxTokens" :> "length")
    @@ ("FinishReasonSafety" :> "content_filter")
    @@ ("FinishReasonRecitation" :> "content_filter")
    @@ ("FinishReasonOther" :> "null")

finishReasons == toOpenaiFinishReason

toOpenaiRole ==
    (genaiRoleUser :> openaiRoleSystem) @@ (genaiRoleModel :> openaiRoleAssistant)

Candidate(r, ps, fr, n, idx) ==
    [Role |-> r, Parts |-> ps, FinishReason |-> fr, TokenCount |-> n, Index |-> idx]

RECURSIVE JoinTexts(_, _)
\* strings.Join of the texts of parts[i..] with the empty separator
JoinTexts(parts, i) ==
    IF i > Len(parts) THEN "" ELSE parts[i].text \o JoinTexts(parts, i + 1)

\* part_000 mergeText: panic on a part that is not text
mergeText(parts) ==
    IF \E i \in 1..Len(parts) : parts[i].kind # "Text"
    THEN [st |-> "panic", text |-> ""]
    ELSE [st |-> "ok", text |-> JoinTexts(parts, 1)]

\* main.go mergeText: in[0] on an empty slice is a runtime panic as well
mergeTextMain(parts) ==
    IF Len(parts) = 0 THEN [st |-> "panic", text |-> ""] ELSE mergeText(parts)

\* openai.go toOpenaiChoice
toOpenaiChoice(c) ==
    LET content == mergeText(c.Parts) IN
    [st |-> content.st,
     choice |-> [Index |-> c.Index,
                 Role |-> Lookup(toOpenaiRole, c.Role),
                 Content |-> content.text,
                 FinishReason |-> Lookup(toOpenaiFinishReason, c.FinishReason)]]

\* a plausible slip: the usage counts the candidates, not their tokens
CountCandidates(cands, i) == Len(cands)

RECURSIVE SumTokens(_, _)
SumTokens(cands, i) ==
    IF i > Len(cands) THEN 0 ELSE cands[i].TokenCount + SumTokens(cands, i + 1)

\* the response made of the converted choices cs
ResponseOf(cands, cs, st) ==
    [st |-> st,
     err |-> IF st = "error" THEN "ErrInvalidParams" ELSE "",
     res |-> [Choices |-> [i \in 1..Len(cs) |-> cs[i].choice],
              CompletionTokens |-> SumTokens(cands, 1)]]

\* openai.go toOpenaiResponse: never returns an error
toOpenaiResponse(cands) ==
    ResponseOf(cands, [i \in 1..Len(cands) |-> toOpenaiChoice(cands[i])],
               FirstBad([i \in 1..Len(cands) |-> toOpenaiChoice(cands[i])], 1))

\* main.go genaiToOpenaiResponse, one iteration of its loop
genaiToOpenaiChoice(c) ==
    LET content == mergeTextMain(c.Parts)
        finishReason == Lookup(finishReasons, c.FinishReason)
    IN [st |-> IF content.st # "ok" THEN content.st
               ELSE IF finishReason = "" THEN "error" ELSE "ok",
        choice |-> [Index |-> c.Index,
                    Role |-> IF c.Role = genaiRoleModel THEN "assistant" ELSE "user",
                    Content |-> content.text,
                    FinishReason |-> finishReason]]

\* main.go genaiToOpenaiResponse: the first candidate that panics or has no
\* mapped finish reason ends the loop
genaiToOpenaiResponse(cands) ==
    ResponseOf(cands, [i \in 1..Len(cands) |-> genaiToOpenaiChoice(cands[i])],
               FirstBad([i \in 1..Len(cands) |-> genaiToOpenaiChoice(cands[i])], 1))

NoResp == [Choices |-> <<>>, CompletionTokens |-> 0]

\* no answer of the provider: the send-call was not made
NoReply == [err |-> FALSE, cands |-> <<>>]

\* what the provider answers to a send-call: an error or a candidate list
ProviderReplies ==
    { [err |-> TRUE, cands |-> <<>>],
      [err |-> FALSE, cands |-> <<>>],
      [err |-> FALSE,
       cands |-> <<Candidate(genaiRoleModel, <<Text("4")>>, "FinishReasonStop", 1, 0)>>],
      [err |-> FALSE,
       cands |-> <<Candidate(genaiRoleModel, <<Text("a"), Text("b")>>,
                             "FinishReasonMaxTokens", 2, 0),
                   Candidate(genaiRoleUser, <<Text("c")>>, "FinishReasonSafety", 3, 1)>>],
      [err |-> FALSE,
       cands |-> <<Candidate(genaiRoleModel, <<Blob(<<"png">>, <<"iVBOR">>)>>,
                             "FinishReasonStop", 1, 0)>>],
      [err |-> FALSE,
       cands |-> <<Candidate("", <<Text("x")>>, "FinishReasonBlocklist", 0, 0)>>] }


(***************************************************************************)
(* Credential-scoped client cache, as one sequential call (the handlers    *)
(* below) and step by step (the concurrent calls further down).            *)
(***************************************************************************)
Keys == {"k1", "k2"}
Calls == 1..NumCalls

\* a plausible slip: sync.Map.Store semantics, the last writer wins
StoreAlways(m, k, c) ==
    [actual |-> {c}, loaded |-> FALSE, m |-> [m EXCEPT ![k] = {c}]]

\* sync.Map.LoadOrStore: the stored value wins, the map changes only on a miss
LoadOrStore(m, k, c) ==
    IF m[k] # {} THEN [actual |-> m[k], loaded |-> TRUE, m |-> m]
    ELSE [actual |-> {c}, loaded |-> FALSE, m |-> [m EXCEPT ![k] = {c}]]

\* createClient run without interleaving: c is the client NewClient would
\* build, newOk whether NewClient succeeds
createClientSeq(m, k, c, newOk) ==
    IF m[k] # {} THEN [st |-> "ok", client |-> m[k], m |-> m, built |-> {}]
    ELSE IF ~newOk THEN [st |-> "error", client |-> {}, m |-> m, built |-> {}]
         ELSE LET r == LoadOrStore(m, k, c)
              IN [st |-> "ok", client |-> r.actual, m |-> r.m, built |-> {c}]

\* a plausible slip: a missing key is answered as a returned error
createClientChecked(m, ctxv, c, newOk) ==
    IF ctxv = {} THEN [st |-> "error", client |-> {}, m |-> m, built |-> {}]
    ELSE createClientSeq(m, CHOOSE k \in ctxv : TRUE, c, newOk)

\* createClient from its first statement on: ctxv is the value the context
\* holds under apiKeyContextKey, {} when nil; the type assertion .(string) of
\* a nil interface value is a runtime panic
createClient(m, ctxv, c, newOk) ==
    IF ctxv = {} THEN [st |-> "panic", client |-> {}, m |-> m, built |-> {}]
    ELSE createClientSeq(m, CHOOSE k \in ctxv : TRUE, c, newOk)

(***************************************************************************)
(* Parameter Mapper: loadOrStoreModel (openai.go, main.go).  A pointer     *)
(* field of the model configuration is a set, {} when nil.  Temperature    *)
(* and top_p are counted in tenths.                                        *)
(***************************************************************************)
\* the generation fields of a request; max_tokens stays within int32, so
\* int32(req.MaxTokens) is the value itself
GenRequests ==
    [Temperature : {0, 7, 20},
     TopP : {0, 9, 10},
     MaxTokens : {0, 1, 256},
     Stop : {<<>>, <<"END">>, <<"END", "STOP">>},
     N : {0, 3}]

NoGenReq == [Temperature |-> 0, TopP |-> 0, MaxTokens |-> 0, Stop |-> <<>>, N |-> 0]

\* client.GenerativeModel(name): nothing of the configuration is set
GenerativeModel(name) ==
    [Name |-> name, CandidateCount |-> {}, MaxOutputTokens |-> {},
     Temperature |-> {}, TopP |-> {}, StopSequences |-> <<>>]

NoModel == GenerativeModel("")

\* the Set* calls and the two resets to nil of loadOrStoreModel
ConfigureModel(model, r) ==
    [model EXCEPT
        !.CandidateCount = {1},
        !.MaxOutputTokens = IF r.MaxTokens = 0 THEN {} ELSE {r.MaxTokens},
        !.Temperature = {r.Temperature},
        !.TopP = IF r.TopP = 0 THEN {} ELSE {r.TopP},
        !.StopSequences = r.Stop]

\* openai.go Adapter.loadOrStoreModel; clientOk is the outcome of createClient
loadOrStoreModel(r, multiModal, clientOk) ==
    IF ~clientOk THEN [err |-> TRUE, model |-> NoModel]
    ELSE [err |-> FALSE,
          model |-> ConfigureModel(
              GenerativeModel(IF multiModal THEN "gemini-pro-vision" ELSE "gemini-pro"),
              r)]

\* main.go gemini.loadOrStoreModel: the same statements
geminiLoadOrStoreModel(r, multiModal, clientOk) ==
    IF ~clientOk THEN [err |-> TRUE, model |-> NoModel]
    ELSE [err |-> FALSE,
          model |-> ConfigureModel(
              GenerativeModel(IF multiModal THEN "gemini-pro-vision" ELSE "gemini-pro"),
              r)]

ParamIdle ==
    /\ genReq = NoGenReq
    /\ genBy = ""
    /\ genErr = FALSE
    /\ genModel = NoModel

(***************************************************************************)
(* The HTTP handlers: openaiHandler.ChatCompletion and streamResponse of   *)
(* cmd/server/main.go (in front of the Adapter) and openaiHandler of       *)
(* main.go (in front of gemini).                                           *)
(***************************************************************************)
StatusOK == 200
StatusBadRequest == 400
StatusPreconditionFailed == 412
StatusUnprocessableEntity == 422
StatusInternalServerError == 500

\* the HTTP handler in front of the adapter method called
ServerOf(name) ==
    CASE name = "gemini.ChatCompletion" -> "main"
      [] name = "gemini.ChatCompletion (part_001)" -> "part_001"
      [] OTHER -> "cmd/server"

\* the caller of the method: the handler of cmd/server puts the key into the
\* context before it calls the Adapter, so an Adapter method that finds no key
\* was called by other code
CallerOf(name, ctxv) ==
    IF ctxv = {} /\ ServerOf(name) = "cmd/server" THEN "" ELSE ServerOf(name)

\* the status answered to a body that json.Decode rejects
DecodeErrorStatus(srv) ==
    IF srv = "main" THEN StatusBadRequest ELSE StatusInternalServerError

\* the status answered after the adapter call of a single-shot request: the
\* encoded response, or http.Error for a returned error; a panic or an exit
\* writes nothing
AnswerStatus(st) ==
    CASE st = "ok" -> StatusOK
      [] st = "error" -> StatusUnprocessableEntity
      [] OTHER -> 0

(***************************************************************************)
(* The handlers, one request at a time.                                    *)
(***************************************************************************)
ReqKey == "k1"
\* the contexts an Adapter method is called with: as the caller made it, or
\* with the key put in by AuthContext
Contexts == {{}, {ReqKey}}
FreshClient == Cardinality(constructed) + 1

\* the request as prepared: status, error, calls made, merger result, mapped
\* turns, fixed-up turns, session history, parts of the send-call, cache
\* map, clients built
Prep(st, err, sq, mg, mp, fx, hist, parts, m, built) ==
    [st |-> st, err |-> err, steps |-> sq, merged |-> mg, mapped |-> mp,
     fixed |-> fx, history |-> hist, parts |-> parts, m |-> m, built |-> built]

\* contents, tail := pop(contents); sc.History = contents; send tail.Parts
PreparePop(b, c, p) ==
    Prep("ok", "", b.steps \o <<"model", "send">>, b.merged, b.mapped,
         b.contents, p.rest, p.last.Parts, c.m, c.built)

\* after loadOrStoreModel: its error is returned before anything is sent
PrepareModel(b, c) ==
    IF c.st # "ok"
    THEN Prep(c.st, IF c.st = "panic" THEN "apiKey" ELSE "NewClient",
              b.steps \o <<"model">>, b.merged, b.mapped,
              b.contents, <<>>, <<>>, c.m, c.built)
    ELSE PreparePop(b, c, pop(b.contents))

\* after buildContent: an exit or a panic in it ends the request
PrepareBuilt(b, ctxv, newOk) ==
    IF b.st # "ok"
    THEN Prep(b.st, "", b.steps, b.merged, b.mapped, <<>>, <<>>, <<>>, clients, {})
    ELSE PrepareModel(b, createClient(clients, ctxv, FreshClient, newOk))

\* Adapter.ChatCompletion and Adapter.ChatCompletionStream up to the
\* send-call: buildContent, loadOrStoreModel, pop, sc.History
AdapterPrepare(msgs, ctxv, newOk) ==
    PrepareBuilt(buildContent(msgs), ctxv, newOk)

\* the effect of a prepared request on the request and cache variables
Prepared(name, msgs, ctxv, p) ==
    /\ handler' = name
    /\ ctxKey' = ctxv
    /\ server' = CallerOf(name, ctxv)
    /\ req' = msgs
    /\ merged' = p.merged
    /\ mapped' = p.mapped
    /\ fixed' = p.fixed
    /\ history' = p.history
    /\ sentParts' = p.parts
    /\ called' = (p.st = "ok")
    /\ clients' = p.m
    /\ installs' = IF p.m # clients THEN [installs EXCEPT ![ReqKey] = @ + 1]
                   ELSE installs
    /\ constructed' = constructed \cup p.built
    /\ UNCHANGED <<closed, cpc, ckey, cg, cret>>

\* the end of a single-shot request: reply is the provider's answer to the
\* send-call and r the response assembled from its candidates
Replied(p, reply, r) ==
    IF p.st # "ok"
    THEN /\ outcome' = p.st
         /\ errKind' = p.err
         /\ resp' = NoResp
         /\ genaiResp' = NoReply
         /\ status' = AnswerStatus(p.st)
         /\ steps' = p.steps
    ELSE IF reply.err
         THEN /\ outcome' = "error"
              /\ errKind' = "provider"
              /\ resp' = NoResp
              /\ genaiResp' = reply
              /\ status' = AnswerStatus("error")
              /\ steps' = p.steps
         ELSE /\ outcome' = r.st
              /\ errKind' = r.err
              /\ resp' = IF r.st = "ok" THEN r.res ELSE NoResp
              /\ genaiResp' = reply
              /\ status' = AnswerStatus(r.st)
              /\ steps' = Append(p.steps, "assemble")

\* a request served by Adapter.ChatCompletion, p its prepared form
Completed(msgs, ctxv, p) ==
    /\ Prepared("Adapter.ChatCompletion", msgs, ctxv, p)
    /\ \E reply \in ProviderReplies :
          Replied(p, reply, toOpenaiResponse(reply.cands))

\* openai.go Adapter.ChatCompletion
ChatCompletion ==
    /\ outcome = "idle"
    /\ \E msgs \in Requests :
        \E ctxv \in Contexts : \E newOk \in BOOLEAN :
            Completed(msgs, ctxv, AdapterPrepare(msgs, ctxv, newOk))
    /\ UNCHANGED <<streamVars, paramVars, dumpVars>>

\* a request served by Adapter.ChatCompletionStream, p its prepared form
StreamStarted(msgs, ctxv, p) ==
    /\ Prepared("Adapter.ChatCompletionStream", msgs, ctxv, p)
    /\ outcome' = IF p.st = "ok" THEN "streaming" ELSE p.st
    /\ errKind' = p.err
    /\ resp' = NoResp
    /\ genaiResp' = NoReply
    /\ status' = IF p.st = "error" THEN StatusPreconditionFailed ELSE 0
    /\ steps' = p.steps

\* openai.go Adapter.ChatCompletionStream up to the start of the producer,
\* whose first statement is the send-call
ChatCompletionStream ==
    /\ outcome = "idle"
    /\ \E msgs \in Requests :
        \E ctxv \in Contexts : \E newOk \in BOOLEAN :
            StreamStarted(msgs, ctxv, AdapterPrepare(msgs, ctxv, newOk))
    /\ UNCHANGED <<streamVars, paramVars, dumpVars>>

\* main.go gemini.ChatCompletion: last, contents = contents[len-1], contents[:len-1]
GeminiFixed(m, cs, c, f) ==
    IF f.st # "ok"
    THEN Prep(f.st, "", <<"merge", "map", "model", "fixup">>, m.msgs, cs.contents,
              <<>>, <<>>, <<>>, c.m, c.built)
    ELSE Prep("ok", "", <<"merge", "map", "model", "fixup", "send">>, m.msgs,
              cs.contents, f.contents,
              SubSeq(f.contents, 1, Len(f.contents) - 1),
              f.contents[Len(f.contents)].Parts, c.m, c.built)

\* main.go gemini.ChatCompletion after loadOrStoreModel
GeminiModel(m, cs, c) ==
    IF c.st # "ok"
    THEN Prep("error", "NewClient", <<"merge", "map", "model">>, m.msgs,
              cs.contents, <<>>, <<>>, <<>>, c.m, c.built)
    ELSE GeminiFixed(m, cs, c, fixContentRoleOrder(cs.contents))

\* main.go gemini.ChatCompletion after openaiToGenaiContents
GeminiMapped(m, cs, newOk) ==
    IF cs.st # "ok"
    THEN Prep("error", "decode", <<"merge", "map">>, m.msgs, <<>>, <<>>, <<>>,
              <<>>, clients, {})
    ELSE GeminiModel(m, cs, createClientSeq(clients, ReqKey, FreshClient, newOk))

\* main.go gemini.ChatCompletion after mergeOpenAIMessages
GeminiMerged(m, newOk) ==
    IF m.st # "ok"
    THEN Prep("error", "ErrInvalidParams", <<"merge">>, <<>>, <<>>, <<>>, <<>>,
              <<>>, clients, {})
    ELSE GeminiMapped(m, openaiToGenaiContents(m.msgs), newOk)

\* main.go gemini.ChatCompletion up to the send-call
GeminiPrepare(msgs, newOk) == GeminiMerged(mergeOpenAIMessages(msgs), newOk)

\* a request served by gemini.ChatCompletion, p its prepared form
GeminiCompleted(msgs, p) ==
    /\ Prepared("gemini.ChatCompletion", msgs, {ReqKey}, p)
    /\ \E reply \in ProviderReplies :
          Replied(p, reply, genaiToOpenaiResponse(reply.cands))

\* main.go gemini.ChatCompletion
GeminiChatCompletion ==
    /\ outcome = "idle"
    /\ \E msgs \in Requests :
        \E newOk \in BOOLEAN : GeminiCompleted(msgs, GeminiPrepare(msgs, newOk))
    /\ UNCHANGED <<streamVars, paramVars, dumpVars>>

\* json.NewDecoder(r.Body).Decode(&req) fails: the handler answers with
\* http.Error and returns before the adapter is called
DecodeFailed ==
    /\ outcome = "idle"
    /\ \E srv \in {"cmd/server", "main"} :
          /\ server' = srv
          /\ status' = DecodeErrorStatus(srv)
    /\ outcome' = "rejected"
    /\ errKind' = "decode"
    /\ UNCHANGED <<handler, req, steps, merged, mapped, fixed, history, sentParts,
                   called, resp, genaiResp, ctxKey>>
    /\ UNCHANGED <<cacheVars, streamVars, paramVars, dumpVars>>

\* the HTTP handler answers and the next request is served; a panic of the
\* handler's goroutine is recovered by net/http, an exit ends the process
NextRequest ==
    /\ outcome \in {"ok", "streaming", "error", "panic", "rejected"}
    /\ handler' = ""
    /\ req' = <<>>
    /\ steps' = <<>>
    /\ merged' = <<>>
    /\ mapped' = <<>>
    /\ fixed' = <<>>
    /\ history' = <<>>
    /\ sentParts' = <<>>
    /\ called' = FALSE
    /\ outcome' = "idle"
    /\ errKind' = ""
    /\ resp' = NoResp
    /\ genaiResp' = NoReply
    /\ server' = ""
    /\ status' = 0
    /\ ctxKey' = {}
    /\ UNCHANGED <<cacheVars, streamVars, paramVars, dumpVars>>

ConvInit ==
    /\ handler = ""
    /\ req = <<>>
    /\ steps = <<>>
    /\ merged = <<>>
    /\ mapped = <<>>
    /\ fixed = <<>>
    /\ history = <<>>
    /\ sentParts = <<>>
    /\ called = FALSE
    /\ outcome = "idle"
    /\ errKind = ""
    /\ resp = NoResp
    /\ genaiResp = NoReply
    /\ server = ""
    /\ status = 0
    /\ ctxKey = {}

CacheIdle ==
    /\ clients = [k \in Keys |-> {}]
    /\ installs = [k \in Keys |-> 0]
    /\ constructed = {}
    /\ closed = {}
    /\ cpc = [t \in Calls |-> "idle"]
    /\ ckey = [t \in Calls |-> ReqKey]
    /\ cg = [t \in Calls |-> {}]
    /\ cret = [t \in Calls |-> {}]

StreamIdle ==
    /\ stream = <<>>
    /\ failAt = -1
    /\ pulled = 0
    /\ iterErr = FALSE
    /\ prodPc = "idle"
    /\ prodVal = <<>>
    /\ chClosed = FALSE
    /\ closeCount = 0
    /\ sentChunks = <<>>
    /\ consPc = "idle"
    /\ consVal = <<>>
    /\ written = <<>>
    /\ cancelled = FALSE
    /\ pullsAfterCancel = 0

\* the dump file names one run can produce: fmt.Sprintf over time.DateTime, so
\* one name per second
DumpNames == {"./data/request-12:00:01.txt", "./data/request-12:00:02.txt"}
\* the request bodies that are dumped
DumpBodies == {"body-a", "body-b"}
\* the content of a name that os.OpenFile reports as os.ErrNotExist
NoFile == "ErrNotExist"
Dumps == 1..NumDumps

DumpIdle ==
    /\ files = [n \in DumpNames |-> NoFile]
    /\ dirMade = FALSE
    /\ wpc = [w \in Dumps |-> "idle"]
    /\ wname = [w \in Dumps |-> ""]
    /\ wbody = [w \in Dumps |-> ""]

Init == ConvInit /\ CacheIdle /\ StreamIdle /\ ParamIdle /\ DumpIdle

Next ==
    \/ ChatCompletion
    \/ ChatCompletionStream
    \/ GeminiChatCompletion
    \/ DecodeFailed
    \/ NextRequest

Spec == Init /\ [][Next]_vars


(***************************************************************************)
(* Properties of the conversion pipeline, checked under Spec.              *)
(***************************************************************************)
Invoked(step) == \E i \in 1..Len(steps) : steps[i] = step
\* the call was made and returned normally (the last call made is the one
\* that decided a failed outcome)
Returned(step) ==
    /\ Invoked(step)
    /\ ~(steps[Len(steps)] = step /\ outcome \in {"exit", "panic", "error"}
         /\ errKind # "provider")
KnownRoles(msgs) == \A i \in 1..Len(msgs) : msgs[i].Role \in DOMAIN toGenaiRole
SyntheticTurn == Content(genaiRoleUser, <<Text(systemPrompt)>>)

\* C1: whenever a request whose roles are all system, assistant or user has
\* been merged (by either merger), the merged list is there and no two
\* adjacent messages of it map to the same provider party.
C1_NoAdjacentSameParty ==
    (handler # "" /\ KnownRoles(req)) =>
        /\ Returned("merge")
        /\ \A i \in 1..(Len(merged) - 1) :
              toGenaiRole[merged[i].Role] # toGenaiRole[merged[i + 1].Role]

\* C1 witness: a three-message request with two adjacent same-party messages
\* was merged into two messages.
C1_Witness ==
    /\ handler = "Adapter.ChatCompletion"
    /\ KnownRoles(req)
    /\ Len(req) = 3
    /\ req[1].Role = openaiRoleSystem
    /\ req[2].Role = openaiRoleUser
    /\ Len(merged) = 2

\* C2: when the fixup is called on a non-empty turn list whose last turn is
\* user-party and whose first turn is not, it returns one synthetic user turn
\* with the priming text followed by the input turns unchanged, so the result
\* starts and ends on a user turn.
C2_FixupPrepends ==
    (/\ Invoked("fixup")
     /\ Len(mapped) > 0
     /\ mapped[Len(mapped)].Role = genaiRoleUser
     /\ mapped[1].Role # genaiRoleUser) =>
        /\ Returned("fixup")
        /\ fixed = <<SyntheticTurn>> \o mapped
        /\ fixed[1].Role = genaiRoleUser
        /\ fixed[1].Parts = <<Text("I will ask you a question. Please answer it.")>>
        /\ fixed[Len(fixed)].Role = genaiRoleUser

\* C2 witness: the fixup ran on a list that starts with a model turn and ends
\* with a user turn.
C2_Witness ==
    /\ Returned("fixup")
    /\ Len(mapped) = 2
    /\ mapped[1].Role = genaiRoleModel
    /\ mapped[2].Role = genaiRoleUser
    /\ Len(fixed) = 3

\* C3: whenever the send-call is made, its parts are the parts of the last
\* turn of the fixed-up list, that turn is user-party, and the session history
\* is the fixed-up list without its last element, in order.
C3_TailIsLastUserTurn ==
    called =>
        /\ Len(fixed) > 0
        /\ sentParts = fixed[Len(fixed)].Parts
        /\ fixed[Len(fixed)].Role = genaiRoleUser
        /\ history = [i \in 1..(Len(fixed) - 1) |-> fixed[i]]

\* C3 witness: a streaming request reached the send-call with a history of
\* two turns.
C3_Witness ==
    /\ called
    /\ handler = "Adapter.ChatCompletionStream"
    /\ Len(history) = 2
    /\ history[1] # history[2]

\* C10: a request with a role outside system, assistant and user ends with an
\* invalid-parameters error returned to the caller, and nothing is sent.
C10_UnknownRoleIsReturnedError ==
    (handler # "" /\ ~KnownRoles(req)) =>
        /\ outcome = "error"
        /\ errKind = "ErrInvalidParams"
        /\ ~called

\* the request has a part the mapper cannot convert: a part that is neither
\* text nor image_url, or an image URL that is not a base64 data URI
BadPart(mp) ==
    \/ mp.Type \notin {ChatMessagePartTypeText, ChatMessagePartTypeImageURL}
    \/ mp.Type = ChatMessagePartTypeImageURL /\ mp.URL # GoodURL
HasBadPart(msgs) ==
    \E i \in 1..Len(msgs) :
        \E j \in 1..Len(msgs[i].MultiContent) : BadPart(msgs[i].MultiContent[j])

\* C11: when the fixup is called on a turn list whose last turn is not
\* user-party it returns no list: the handler ends in a panic, which is not a
\* returned error, and no send-call is made for the request.
C11_LastNotUserIsContractFailure ==
    (/\ Invoked("fixup")
     /\ Len(mapped) > 0
     /\ mapped[Len(mapped)].Role # genaiRoleUser) =>
        /\ outcome = "panic"
        /\ errKind = ""
        /\ fixed = <<>>
        /\ ~called
        /\ ~Invoked("send")

\* C11 witness: gemini.ChatCompletion ran the fixup on a two-turn list that
\* ends with a model turn and ended in a panic.
C11_Witness ==
    /\ handler = "gemini.ChatCompletion"
    /\ Invoked("fixup")
    /\ Len(mapped) = 2
    /\ mapped[2].Role = genaiRoleModel
    /\ outcome = "panic"

\* C12: a request (with known roles) that has a part of an unsupported type or
\* an image URL that does not decode ends with a returned conversion error:
\* no turn list, no send-call, and neither a panic nor an exit of the process.
C12_BadPartIsReturnedError ==
    (handler # "" /\ KnownRoles(req) /\ HasBadPart(req)) =>
        /\ outcome = "error"
        /\ mapped = <<>>
        /\ ~called

\* the provider answered the send-call of a single-shot request with candidates
Answered ==
    /\ called
    /\ handler \in {"Adapter.ChatCompletion", "gemini.ChatCompletion"}
    /\ ~genaiResp.err
AllText(cands) ==
    \A i \in 1..Len(cands) :
        \A j \in 1..Len(cands[i].Parts) : cands[i].Parts[j].kind = "Text"

\* C14: when a candidate of the provider's answer has a finish reason that is
\* not a key of the lookup table the request ends with a returned error, and
\* no returned response has a choice whose finish reason is the empty string.
C14_UnmappedFinishReasonIsError ==
    /\ (/\ Answered
        /\ AllText(genaiResp.cands)
        /\ \E i \in 1..Len(genaiResp.cands) :
              genaiResp.cands[i].FinishReason \notin DOMAIN toOpenaiFinishReason) =>
            (outcome = "error" /\ resp = NoResp)
    /\ outcome = "ok" =>
            \A i \in 1..Len(resp.Choices) : resp.Choices[i].FinishReason # ""

\* C15: in every returned response the i-th choice has the wire role assistant
\* when the i-th candidate's provider party is model, and user otherwise.
C15_RoleMappedBack ==
    (Answered /\ outcome = "ok") =>
        /\ Len(resp.Choices) = Len(genaiResp.cands)
        /\ \A i \in 1..Len(resp.Choices) :
              resp.Choices[i].Role =
                  IF genaiResp.cands[i].Role = "model" THEN "assistant" ELSE "user"

\* the provider party of a message with a known role
Party(m) == toGenaiRole[m.Role]
\* the positions at which a maximal run of same-party messages starts
RunStarts(msgs) ==
    { i \in 1..Len(msgs) : i = 1 \/ Party(msgs[i]) # Party(msgs[i - 1]) }
\* the last position of the run that starts at s
RunEnd(msgs, s) ==
    CHOOSE e \in s..Len(msgs) :
        /\ \A i \in s..e : Party(msgs[i]) = Party(msgs[s])
        /\ e = Len(msgs) \/ Party(msgs[e + 1]) # Party(msgs[s])
\* the number of the run that starts at s
RunIndex(msgs, s) == Cardinality({ i \in RunStarts(msgs) : i <= s })
Plain(msgs, s, e) == \A i \in s..e : Len(msgs[i].MultiContent) = 0

RECURSIVE JoinNL(_, _, _)
\* the texts of msgs[s..e] with one newline between neighbours
JoinNL(msgs, s, e) ==
    IF s = e THEN msgs[s].Content
    ELSE msgs[s].Content \o "\n" \o JoinNL(msgs, s + 1, e)

\* C17: every maximal run of two or more same-party messages none of which
\* has multi-part content is replaced, at the run's place in the output, by
\* one message with the first message's role, no parts, and the texts of the
\* run in order with a single newline between neighbours.
C17_PlainRunJoinedByNewline ==
    (handler # "" /\ KnownRoles(req)) =>
        \A s \in RunStarts(req) :
            (RunEnd(req, s) > s /\ Plain(req, s, RunEnd(req, s))) =>
                /\ Returned("merge")
                /\ Len(merged) = Cardinality(RunStarts(req))
                /\ merged[RunIndex(req, s)] =
                       Msg(req[s].Role, JoinNL(req, s, RunEnd(req, s)), <<>>)

\* C17 witness: user "hello", user "world", assistant "hi" was merged into
\* user "hello\nworld", assistant "hi".
C17_Witness ==
    /\ handler = "Adapter.ChatCompletion"
    /\ req = <<Msg("user", "hello", <<>>), Msg("user", "world", <<>>),
               Msg("assistant", "hi", <<>>)>>
    /\ merged = <<Msg("user", "hello\nworld", <<>>), Msg("assistant", "hi", <<>>)>>

\* the fold of message m into the previous output message p as the merge
\* rules state it
Folded(p, m) ==
    CASE Len(p.MultiContent) > 0 /\ Len(m.MultiContent) > 0 ->
            Msg(p.Role, p.Content, p.MultiContent \o m.MultiContent)
      [] Len(p.MultiContent) > 0 /\ Len(m.MultiContent) = 0 ->
            Msg(p.Role, p.Content, p.MultiContent \o <<TextPart(m.Content)>>)
      [] Len(p.MultiContent) = 0 /\ Len(m.MultiContent) > 0 ->
            Msg(p.Role, "", <<TextPart(p.Content)>> \o m.MultiContent)
      [] OTHER -> Msg(p.Role, p.Content \o "\n" \o m.Content, <<>>)

RECURSIVE FoldedRun(_, _, _)
\* msgs[s..e] folded from the left
FoldedRun(msgs, s, e) ==
    IF e = s THEN msgs[s] ELSE Folded(FoldedRun(msgs, s, e - 1), msgs[e])

\* C18: every maximal run of two or more same-party messages of which at
\* least one has multi-part content is replaced by its left fold: parts of the
\* previous message then parts of the folded one when both have parts, the
\* previous parts then one text part of the folded text when only the previous
\* has parts, one text part of the previous text then the folded parts (plain
\* text cleared) when only the folded one has parts.
C18_MultiPartFoldKeepsOrder ==
    (handler # "" /\ KnownRoles(req)) =>
        \A s \in RunStarts(req) :
            (RunEnd(req, s) > s /\ ~Plain(req, s, RunEnd(req, s))) =>
                /\ Returned("merge")
                /\ Len(merged) = Cardinality(RunStarts(req))
                /\ merged[RunIndex(req, s)] = FoldedRun(req, s, RunEnd(req, s))

\* C18 witness: assistant "hi", assistant [there], assistant "hi" was merged
\* into one assistant message with the parts [hi, there, hi] and no plain text
\* (only the folded message has parts, then only the previous one has).
C18_Witness ==
    /\ handler = "gemini.ChatCompletion"
    /\ Len(req) = 3
    /\ req[1] = Msg("assistant", "hi", <<>>)
    /\ req[2] = Msg("assistant", "", <<TextPart("there")>>)
    /\ req[3] = Msg("assistant", "hi", <<>>)
    /\ merged = <<Msg("assistant", "",
                      <<TextPart("hi"), TextPart("there"), TextPart("hi")>>)>>

\* the merger of the handler that serves the request
MergedAgain ==
    IF handler = "gemini.ChatCompletion"
    THEN mergeOpenAIMessages(merged) ELSE mergeOpenaiMessages(merged)

\* C19: a request with known roles in which no two adjacent messages map to
\* the same provider party is returned by the merger as it is, and merging
\* the merger's result again returns that result.
C19_MergeIdempotent ==
    (handler # "" /\ KnownRoles(req)) =>
        /\ Returned("merge")
        /\ (\A i \in 1..(Len(req) - 1) : Party(req[i]) # Party(req[i + 1])) =>
              merged = req
        /\ MergedAgain.st = "ok"
        /\ MergedAgain.msgs = merged

\* C19 witness: a request of three messages that alternate user, model, user
\* came out of the merger unchanged.
C19_Witness ==
    /\ handler = "Adapter.ChatCompletion"
    /\ Len(req) = 3
    /\ req[1].Role = openaiRoleSystem
    /\ req[2].Role = openaiRoleAssistant
    /\ Len(req[3].MultiContent) = 2
    /\ merged = req

\* C20: when the fixup is called on a turn list whose first and last turns
\* are user-party it returns the same list: same length, same turns, same
\* order, no synthetic turn.
C20_FixupNoOpWhenUserFirst ==
    (/\ Invoked("fixup")
     /\ Len(mapped) > 0
     /\ mapped[1].Role = genaiRoleUser
     /\ mapped[Len(mapped)].Role = genaiRoleUser) =>
        /\ Returned("fixup")
        /\ fixed = mapped

\* C20 witness: the fixup ran on three turns user, model, user and returned
\* the three turns.
C20_Witness ==
    /\ Returned("fixup")
    /\ Len(mapped) = 3
    /\ mapped[1].Role = genaiRoleUser
    /\ mapped[2].Role = genaiRoleModel
    /\ mapped[3].Role = genaiRoleUser
    /\ fixed = mapped

\* the end-to-end scenario: the request, the provider's answer, the response
ScenarioRequest ==
    <<Msg("system", "be terse", <<>>), Msg("user", "2+2?", <<>>)>>
ScenarioReply ==
    [err |-> FALSE,
     cands |-> <<Candidate("model", <<Text("4")>>, "FinishReasonStop", 1, 0)>>]
ScenarioServed ==
    /\ handler \in {"Adapter.ChatCompletion", "gemini.ChatCompletion"}
    /\ req = ScenarioRequest
    /\ called
    /\ genaiResp = ScenarioReply
ScenarioResponse ==
    /\ outcome = "ok"
    /\ Len(resp.Choices) = 1
    /\ resp.Choices[1].Role = "assistant"
    /\ resp.Choices[1].Content = "4"
    /\ resp.Choices[1].FinishReason = "stop"

\* C21 as stated: for [system "be terse", user "2+2?"] answered by one
\* candidate (model, "4", stop) the send-call carries the turn user "2+2?",
\* the history is the one turn user "be terse", no synthetic turn is added,
\* and the response has one choice assistant, "4", stop.
C21_ScenarioAsStated ==
    ScenarioServed =>
        /\ sentParts = <<Text("2+2?")>>
        /\ history = <<Content("user", <<Text("be terse")>>)>>
        /\ \A i \in 1..Len(fixed) : fixed[i] # SyntheticTurn
        /\ ScenarioResponse

\* C21 amended: the two messages map to the same provider party and are
\* merged, so the send-call carries the one turn user "be terse\n2+2?", the
\* history is empty, no synthetic turn is added, and the response has one
\* choice assistant, "4", stop.
C21_ScenarioMerged ==
    ScenarioServed =>
        /\ sentParts = <<Text("be terse\n2+2?")>>
        /\ history = <<>>
        /\ fixed = <<Content("user", <<Text("be terse\n2+2?")>>)>>
        /\ ScenarioResponse

\* C21 witness: Adapter.ChatCompletion served the scenario and answered ok.
C21_Witness ==
    /\ ScenarioServed
    /\ handler = "Adapter.ChatCompletion"
    /\ outcome = "ok"
    /\ Len(merged) = 1

RECURSIVE TotalTokens(_, _)
\* the token counts of the first n candidates added up
TotalTokens(cands, n) ==
    IF n = 0 THEN 0 ELSE TotalTokens(cands, n - 1) + cands[n].TokenCount

\* C22: every returned response has as completion-token usage the sum of the
\* token counts of the provider's candidates (0 when there is none) and one
\* choice per candidate, in the candidates' order (same index and text).
C22_UsageIsTokenSum ==
    (Answered /\ outcome = "ok") =>
        /\ resp.CompletionTokens = TotalTokens(genaiResp.cands, Len(genaiResp.cands))
        /\ Len(resp.Choices) = Len(genaiResp.cands)
        /\ \A i \in 1..Len(resp.Choices) :
              /\ resp.Choices[i].Index = genaiResp.cands[i].Index
              /\ resp.Choices[i].Content = JoinTexts(genaiResp.cands[i].Parts, 1)

\* C22 witness: an answer of two candidates with 2 and 3 tokens came back as
\* a response of two choices and a usage of 5.
C22_Witness ==
    /\ Answered
    /\ outcome = "ok"
    /\ Len(genaiResp.cands) = 2
    /\ genaiResp.cands[1].TokenCount = 2
    /\ genaiResp.cands[2].TokenCount = 3
    /\ resp.CompletionTokens = 5
    /\ resp.Choices[1].Content = "ab"
    /\ resp.Choices[2].Content = "c"

\* the finish-reason mapping as the claim states it
StatedFinishReasons ==
    [r \in {"FinishReasonUnspecified", "FinishReasonStop", "FinishReasonMaxTokens",
             "FinishReasonSafety", "FinishReasonRecitation", "FinishReasonOther"} |->
        CASE r \in {"FinishReasonUnspecified", "FinishReasonOther"} -> "null"
          [] r = "FinishReasonStop" -> "stop"
          [] r = "FinishReasonMaxTokens" -> "length"
          [] OTHER -> "content_filter"]

\* C23: both lookup tables map unspecified and other to null, stop to stop,
\* max-tokens to length, safety and recitation to content_filter, have no
\* other entry and no empty value; and every choice of a returned response
\* whose candidate's reason is in the table carries the value stated.
C23_FinishReasonTable ==
    /\ toOpenaiFinishReason = StatedFinishReasons
    /\ finishReasons = StatedFinishReasons
    /\ \A r \in DOMAIN toOpenaiFinishReason : toOpenaiFinishReason[r] # ""
    /\ (Answered /\ outcome = "ok") =>
          \A i \in 1..Len(resp.Choices) :
              genaiResp.cands[i].FinishReason \in DOMAIN StatedFinishReasons =>
                  resp.Choices[i].FinishReason =
                      StatedFinishReasons[genaiResp.cands[i].FinishReason]

\* C23 witness: a response whose choices carry length (from max-tokens) and
\* content_filter (from safety) was returned.
C23_Witness ==
    /\ Answered
    /\ outcome = "ok"
    /\ Len(resp.Choices) = 2
    /\ genaiResp.cands[1].FinishReason = "FinishReasonMaxTokens"
    /\ resp.Choices[1].FinishReason = "length"
    /\ genaiResp.cands[2].FinishReason = "FinishReasonSafety"
    /\ resp.Choices[2].FinishReason = "content_filter"

\* C27: a request whose body does not decode is answered with a 4xx status
\* and the adapter is not called for it; a provider failure returned by the
\* adapter is answered with 422 Unprocessable Entity.
C27_DecodeErrorIsClientError ==
    /\ outcome = "rejected" =>
          /\ status \in 400..499
          /\ handler = ""
          /\ steps = <<>>
          /\ ~called
    /\ (errKind = "provider" /\ outcome = "error") => status = 422

\* the request went through the Adapter, whose conversion is buildContent
ThroughBuildContent ==
    handler \in {"Adapter.ChatCompletion", "Adapter.ChatCompletionStream"}

\* C28: for a non-empty request with known roles whose last message maps to
\* the user party, once merge and map have returned, the fixup returns too and
\* the turn list it returns starts on user, ends on user and has no two
\* adjacent turns of one party; its length is odd, and the history of a
\* send-call is empty or ends with a model turn.
C28_FullAlternation ==
    (/\ ThroughBuildContent
     /\ Len(req) > 0
     /\ KnownRoles(req)
     /\ toGenaiRole[req[Len(req)].Role] = genaiRoleUser
     /\ Returned("map")) =>
        /\ Returned("fixup")
        /\ Len(fixed) > 0
        /\ fixed[1].Role = genaiRoleUser
        /\ fixed[Len(fixed)].Role = genaiRoleUser
        /\ \A i \in 1..(Len(fixed) - 1) : fixed[i].Role # fixed[i + 1].Role
        /\ Len(fixed) % 2 = 1
        /\ called =>
              \/ history = <<>>
              \/ history[Len(history)].Role = genaiRoleModel

\* C28 witness: a request that starts with an assistant message and ends with
\* a run of two user messages was sent with the synthetic turn in front and a
\* history that ends with the model turn.
C28_Witness ==
    /\ ThroughBuildContent
    /\ called
    /\ Len(req) = 3
    /\ req[1].Role = openaiRoleAssistant
    /\ req[2].Role = openaiRoleUser
    /\ req[3].Role = openaiRoleUser
    /\ Len(fixed) = 3
    /\ Len(history) = 2
    /\ history[2].Role = genaiRoleModel

\* every message carries plain text or parts, not both
EitherTextOrParts(msgs) ==
    \A i \in 1..Len(msgs) :
        msgs[i].Content = "" \/ Len(msgs[i].MultiContent) = 0

\* the first position in s..e of a message with parts, e + 1 when none has
FirstWithParts(msgs, s, e) ==
    IF Plain(msgs, s, e) THEN e + 1
    ELSE CHOOSE k \in s..e :
             /\ Len(msgs[k].MultiContent) > 0
             /\ k = s \/ Plain(msgs, s, k - 1)

\* the content units of one input message: its text, or its parts converted
UnitsOf(m) ==
    IF Len(m.MultiContent) = 0 THEN <<Text(m.Content)>>
    ELSE [j \in 1..Len(m.MultiContent) |-> toGenaiPart(m.MultiContent[j]).part]

RECURSIVE UnitsFrom(_, _, _)
\* the content units of msgs[k..e], message after message
UnitsFrom(msgs, k, e) ==
    IF k > e THEN <<>> ELSE UnitsOf(msgs[k]) \o UnitsFrom(msgs, k + 1, e)

\* the joined text of the plain messages msgs[s..k-1], none when k = s
JoinedUnit(msgs, s, k) ==
    IF k > s THEN <<Text(JoinNL(msgs, s, k - 1))>> ELSE <<>>

\* the content units the run msgs[s..e] has to come out as: the texts of its
\* leading plain messages in one unit, then every text and every part of the
\* messages from the first one with parts on, in request order
RunUnits(msgs, s, e) ==
    JoinedUnit(msgs, s, FirstWithParts(msgs, s, e))
        \o UnitsFrom(msgs, FirstWithParts(msgs, s, e), e)

\* C29: for a request whose messages carry plain text or parts but not both,
\* merge and map lose nothing: the turns produced before the fixup are one per
\* run of same-party messages and hold every text and every part of the run in
\* request order, and no merged message has both plain text and parts.
C29_NoContentLost ==
    (/\ ThroughBuildContent
     /\ KnownRoles(req)
     /\ EitherTextOrParts(req)) =>
        /\ Returned("merge") =>
              \A i \in 1..Len(merged) :
                  merged[i].Content = "" \/ Len(merged[i].MultiContent) = 0
        /\ Returned("map") =>
              /\ Len(mapped) = Cardinality(RunStarts(req))
              /\ \A s \in RunStarts(req) :
                    mapped[RunIndex(req, s)].Parts = RunUnits(req, s, RunEnd(req, s))

\* C29 witness: user "hello", user [look, image], user "world" came out as one
\* user turn with the units hello, look, image, world.
C29_Witness ==
    /\ ThroughBuildContent
    /\ Returned("map")
    /\ Len(req) = 3
    /\ req[1] = Msg("user", "hello", <<>>)
    /\ Len(req[2].MultiContent) = 2
    /\ req[3] = Msg("user", "world", <<>>)
    /\ Len(mapped) = 1
    /\ Len(mapped[1].Parts) = 4
    /\ mapped[1].Parts[1] = Text("hello")
    /\ mapped[1].Parts[2] = Text("look")
    /\ mapped[1].Parts[4] = Text("world")

\* the call that is being served is an Adapter method called with a context
\* that holds no API key
CalledWithoutKey == ThroughBuildContent /\ ctxKey = {}

\* C31: Adapter.ChatCompletion and Adapter.ChatCompletionStream called with a
\* context without API key never return an error value and never reach the
\* send-call; when buildContent has returned, the call ends in the panic of
\* the credential lookup, raised inside loadOrStoreModel; such a call
\* constructs no client and leaves the client cache as it was.
C31_NoKeyPanics ==
    /\ [](CalledWithoutKey =>
            /\ outcome \in {"panic", "exit"}
            /\ ~called
            /\ resp = NoResp
            /\ Returned("fixup") =>
                  /\ outcome = "panic"
                  /\ errKind = "apiKey"
                  /\ steps[Len(steps)] = "model")
    /\ [][CalledWithoutKey' =>
            /\ clients' = clients
            /\ constructed' = constructed
            /\ installs' = installs]_vars

\* C31 witness: after a call with a key has put a client into the cache, a
\* streaming call without key got through buildContent and panicked at the
\* credential lookup.
C31_Witness ==
    /\ handler = "Adapter.ChatCompletionStream"
    /\ ctxKey = {}
    /\ Returned("fixup")
    /\ outcome = "panic"
    /\ errKind = "apiKey"
    /\ clients[ReqKey] # {}


(***************************************************************************)
(* The Parameter Mapper on its own: a request's generation fields go       *)
(* through loadOrStoreModel of either variant.                             *)
(***************************************************************************)
ParamInit ==
    /\ ConvInit
    /\ CacheIdle
    /\ StreamIdle
    /\ DumpIdle
    /\ genReq \in GenRequests
    /\ genBy = ""
    /\ genErr = FALSE
    /\ genModel = NoModel

\* the effect of a loadOrStoreModel call that returned r
ModelLoaded(name, r) ==
    /\ genBy' = name
    /\ genErr' = r.err
    /\ genModel' = r.model
    /\ UNCHANGED genReq
    /\ UNCHANGED <<convVars, cacheVars, streamVars, dumpVars>>

AdapterLoadOrStoreModel ==
    /\ genBy = ""
    /\ \E multiModal \in BOOLEAN : \E clientOk \in BOOLEAN :
          ModelLoaded("Adapter.loadOrStoreModel",
                      loadOrStoreModel(genReq, multiModal, clientOk))

GeminiLoadOrStoreModel ==
    /\ genBy = ""
    /\ \E multiModal \in BOOLEAN : \E clientOk \in BOOLEAN :
          ModelLoaded("gemini.loadOrStoreModel",
                      geminiLoadOrStoreModel(genReq, multiModal, clientOk))

ParamNext == AdapterLoadOrStoreModel \/ GeminiLoadOrStoreModel

SpecParams == ParamInit /\ [][ParamNext]_vars

\* C16: for a request with temperature 0, top_p 0 and max_tokens 0 the model
\* returned by loadOrStoreModel has temperature, topP and maxOutputTokens
\* unset (nil), and its stop sequences are the request's stop list, empty or
\* not.
C16_ZeroParamsAreUnset ==
    (/\ genBy # ""
     /\ ~genErr
     /\ genReq.Temperature = 0
     /\ genReq.TopP = 0
     /\ genReq.MaxTokens = 0) =>
        /\ genModel.Temperature = {}
        /\ genModel.TopP = {}
        /\ genModel.MaxOutputTokens = {}
        /\ genModel.StopSequences = genReq.Stop


(***************************************************************************)
(* Concurrent createClient calls on the shared cache (openai.go            *)
(* Adapter.createClient, main.go gemini.createClient: the same code).      *)
(* The client a call builds is named by the call.                          *)
(***************************************************************************)
\* a request task enters createClient with credential k in its context
CallBegin(t, k) ==
    /\ cpc[t] = "idle"
    /\ cpc' = [cpc EXCEPT ![t] = "load"]
    /\ ckey' = [ckey EXCEPT ![t] = k]
    /\ UNCHANGED <<clients, installs, constructed, closed, cg, cret>>
    /\ UNCHANGED <<convVars, streamVars, paramVars, dumpVars>>

\* openaiClient, ok := a.clients.Load(apiKey); a hit is returned
CallLoad(t) ==
    /\ cpc[t] = "load"
    /\ IF clients[ckey[t]] # {}
       THEN /\ cret' = [cret EXCEPT ![t] = clients[ckey[t]]]
            /\ cpc' = [cpc EXCEPT ![t] = "done"]
       ELSE /\ cpc' = [cpc EXCEPT ![t] = "new"]
            /\ UNCHANGED cret
    /\ UNCHANGED <<clients, installs, constructed, closed, ckey, cg>>
    /\ UNCHANGED <<convVars, streamVars, paramVars, dumpVars>>

\* a plausible slip: the result of NewClient is stored before err is looked at
CallNewClientStoresFirst(t) ==
    /\ cpc[t] = "new"
    /\ \E ok \in BOOLEAN :
        IF ok
        THEN /\ cg' = [cg EXCEPT ![t] = {t}]
             /\ constructed' = constructed \cup {t}
             /\ cpc' = [cpc EXCEPT ![t] = "store"]
             /\ UNCHANGED <<clients, installs>>
        ELSE /\ cpc' = [cpc EXCEPT ![t] = "failed"]
             /\ clients' = [clients EXCEPT ![ckey[t]] = IF @ = {} THEN {t} ELSE @]
             /\ installs' = IF clients[ckey[t]] = {}
                            THEN [installs EXCEPT ![ckey[t]] = @ + 1] ELSE installs
             /\ UNCHANGED <<cg, constructed>>
    /\ UNCHANGED <<closed, ckey, cret>>
    /\ UNCHANGED <<convVars, streamVars, paramVars, dumpVars>>

\* g, err := genai.NewClient(...); an error is returned to the caller
CallNewClient(t) ==
    /\ cpc[t] = "new"
    /\ \E ok \in BOOLEAN :
        IF ok
        THEN /\ cg' = [cg EXCEPT ![t] = {t}]
             /\ constructed' = constructed \cup {t}
             /\ cpc' = [cpc EXCEPT ![t] = "store"]
        ELSE /\ cpc' = [cpc EXCEPT ![t] = "failed"]
             /\ UNCHANGED <<cg, constructed>>
    /\ UNCHANGED <<clients, installs, closed, ckey, cret>>
    /\ UNCHANGED <<convVars, streamVars, paramVars, dumpVars>>

\* the effect of the store result r of call t; the call returns r.actual
\* (c when loaded, g otherwise) and does nothing else with g
Stored(t, r) ==
    /\ clients' = r.m
    /\ installs' = IF r.loaded THEN installs
                   ELSE [installs EXCEPT ![ckey[t]] = @ + 1]
    /\ cret' = [cret EXCEPT ![t] = r.actual]
    /\ cpc' = [cpc EXCEPT ![t] = "done"]

\* c, loaded := a.clients.LoadOrStore(apiKey, g), and the return
CallLoadOrStore(t) ==
    /\ cpc[t] = "store"
    /\ Stored(t, LoadOrStore(clients, ckey[t], t))
    /\ UNCHANGED <<constructed, closed, ckey, cg>>
    /\ UNCHANGED <<convVars, streamVars, paramVars, dumpVars>>

\* Adapter.Close: Range over the map, closing every stored client
Close ==
    /\ closed' = closed \cup UNION { clients[k] : k \in Keys }
    /\ closed' # closed
    /\ UNCHANGED <<clients, installs, constructed, cpc, ckey, cg, cret>>
    /\ UNCHANGED <<convVars, streamVars, paramVars, dumpVars>>

CacheNext ==
    \/ \E t \in Calls : \E k \in Keys : CallBegin(t, k)
    \/ \E t \in Calls : CallLoad(t)
    \/ \E t \in Calls : CallNewClient(t)
    \/ \E t \in Calls : CallLoadOrStore(t)
    \/ Close

SpecCache == Init /\ [][CacheNext]_vars

\* the clients built for credential k that are still open
Live(k) == { c \in constructed : ckey[c] = k } \ closed
AllReturned == \A t \in Calls : cpc[t] \in {"done", "failed"}

\* C4: for every credential at most one client is ever stored and the stored
\* one is never replaced; every call that returned a client returned the one
\* stored for its credential, whatever the interleaving.
C4_SingleInstance ==
    \A k \in Keys :
        /\ installs[k] <= 1
        /\ \A t \in Calls :
              (cpc[t] = "done" /\ ckey[t] = k) =>
                  /\ Cardinality(clients[k]) = 1
                  /\ cret[t] = clients[k]

\* C4 witness: all calls ran for the same credential, every one of them built
\* a client of its own (all missed the cache), and all have returned.
C4_Witness ==
    /\ \A t \in Calls : cpc[t] = "done" /\ ckey[t] = "k1"
    /\ constructed = Calls

\* C5: a call that built a client and lost the install has closed the client
\* it built when it returns, so once all calls have returned at most one
\* client per credential is open.
C5_LoserIsClosed ==
    /\ \A t \in Calls :
          (cpc[t] = "done" /\ cg[t] # {} /\ cret[t] # cg[t]) => cg[t] \subseteq closed
    /\ AllReturned => \A k \in Keys : Cardinality(Live(k)) <= 1

\* C24: a createClient call whose NewClient fails returns no client and
\* leaves the cache as it was (no entry stored, nothing counted as built);
\* the cache only ever holds clients that were built; and a call that finds
\* no entry for its credential goes on to construct one, also after an
\* earlier call for the credential failed.
C24_FailureLeavesCacheUnchanged ==
    /\ [](\A t \in Calls :
            cpc[t] = "failed" => (cret[t] = {} /\ cg[t] = {} /\ t \notin constructed))
    /\ [](\A k \in Keys : clients[k] \subseteq constructed)
    /\ [][\A t \in Calls :
            /\ (cpc[t] = "new" /\ cpc'[t] = "failed") =>
                   (clients' = clients /\ installs' = installs)
            /\ (cpc[t] = "load" /\ cpc'[t] # "load" /\ clients[ckey[t]] = {}) =>
                   cpc'[t] = "new"]_vars

\* C24 witness: one call for k1 failed in NewClient and left no entry, and
\* another call for k1 found no entry and is about to construct a client.
C24_Witness ==
    \E t, u \in Calls :
        /\ cpc[t] = "failed"
        /\ ckey[t] = "k1"
        /\ cpc[u] = "new"
        /\ ckey[u] = "k1"
        /\ clients["k1"] = {}


(***************************************************************************)
(* Streaming: the producer goroutine of Adapter.ChatCompletionStream and   *)
(* the relay loop of openaiHandler.streamResponse, joined by an unbuffered *)
(* channel.  A panic of the producer goroutine is not recovered by         *)
(* anything and ends the process.                                          *)
(***************************************************************************)
\* openai.go toOpenaiStreamChoice
toOpenaiStreamChoice(c) ==
    [st |-> mergeText(c.Parts).st,
     choice |-> [Index |-> c.Index,
                 Content |-> mergeText(c.Parts).text,
                 Role |-> Lookup(toOpenaiRole, c.Role),
                 FinishReason |-> Lookup(toOpenaiFinishReason, c.FinishReason)]]

\* the chunk made of the converted choices cs
ChunkOf(cs) ==
    [st |-> FirstBad(cs, 1),
     chunk |-> [Object |-> "chat.completion.chunk",
                Choices |-> [i \in 1..Len(cs) |-> cs[i].choice]]]

\* openai.go toOpenaiStreamChoices, inside the chunk literal of the send
toOpenaiStreamChoices(candidates) ==
    ChunkOf([i \in 1..Len(candidates) |-> toOpenaiStreamChoice(candidates[i])])

Increments ==
    { <<Candidate(genaiRoleModel, <<Text("Hel")>>, "FinishReasonUnspecified", 1, 0)>>,
      <<Candidate(genaiRoleModel, <<Text("lo"), Text("!")>>, "FinishReasonStop", 2, 0)>>,
      <<Candidate(genaiRoleModel, <<Blob(<<"png">>, <<"iVBOR">>)>>,
                  "FinishReasonStop", 1, 0)>> }

Streams == UNION { [1..n -> Increments] : n \in 0..MaxIncr }

StreamRequests ==
    { <<Msg(openaiRoleUser, "hello", <<>>)>>,
      <<Msg(openaiRoleAssistant, "hi", <<>>), Msg(openaiRoleUser, "hello", <<>>)>>,
      <<Msg(openaiRoleUser, "hello", <<>>), Msg(openaiRoleAssistant, "hi", <<>>)>>,
      <<Msg(UnknownRole, "result", <<>>)>> }

ProcessAlive == prodPc # "panic" /\ outcome # "exit"

\* the relay's state after the call: it ranges over ch, or it answers the
\* returned error with http.Error(412) and returns; a panic or an exit of
\* buildContent writes nothing
CallReturned(p) ==
    /\ prodPc' = IF p.st = "ok" THEN "next" ELSE "idle"
    /\ consPc' = IF p.st = "ok" THEN "recv" ELSE "returned"
    /\ written' = IF p.st = "error"
                  THEN <<[event |-> "error", data |-> "StatusPreconditionFailed"]>>
                  ELSE <<>>

\* streamResponse calls Adapter.ChatCompletionStream, which starts the producer
StreamCall ==
    /\ consPc = "call"
    /\ \E msgs \in StreamRequests :
        \E newOk \in BOOLEAN :
            /\ StreamStarted(msgs, {ReqKey}, AdapterPrepare(msgs, {ReqKey}, newOk))
            /\ CallReturned(AdapterPrepare(msgs, {ReqKey}, newOk))
    /\ UNCHANGED <<stream, failAt, pulled, iterErr, prodVal, chClosed, closeCount,
                   sentChunks, consVal, cancelled, pullsAfterCancel>>
    /\ UNCHANGED <<paramVars, dumpVars>>

\* a plausible slip: close(ch) without the break, the loop goes on
NoBreak == "next"

\* close(ch); break
AfterClose == "done"

\* res, err := iter.Next() returned (nil, err) with err # iterator.Done: the
\* code does not look at err and reads res.Candidates of the nil res
NextFailed ==
    /\ iterErr' = TRUE
    /\ prodPc' = "panic"
    /\ UNCHANGED <<pulled, prodVal, chClosed, closeCount>>

\* res, err := iter.Next() returned iterator.Done
NextDone ==
    /\ prodPc' = AfterClose
    /\ chClosed' = TRUE
    /\ closeCount' = closeCount + 1
    /\ UNCHANGED <<pulled, iterErr, prodVal>>

\* res, err := iter.Next() returned the next increment; the chunk literal is
\* built (mergeText may panic) before the send blocks
NextIncrement(c) ==
    /\ pulled' = pulled + 1
    /\ prodPc' = IF c.st = "ok" THEN "send" ELSE "panic"
    /\ prodVal' = IF c.st = "ok" THEN c.chunk ELSE <<>>
    /\ UNCHANGED <<iterErr, chClosed, closeCount>>

\* one iteration of the producer's loop up to the send. The iterator errors
\* after failAt increments; once the context is cancelled it may also return
\* the context's error instead of what it would have returned.
ProducerNext ==
    /\ prodPc = "next"
    /\ outcome # "exit"
    /\ pullsAfterCancel' = IF cancelled THEN pullsAfterCancel + 1 ELSE pullsAfterCancel
    /\ \/ /\ failAt = pulled
          /\ NextFailed
       \/ /\ cancelled
          /\ NextFailed
       \/ /\ failAt # pulled
          /\ pulled < Len(stream)
          /\ NextIncrement(toOpenaiStreamChoices(stream[pulled + 1]))
       \/ /\ failAt # pulled
          /\ pulled = Len(stream)
          /\ NextDone
    /\ UNCHANGED <<stream, failAt, sentChunks, consPc, consVal, written, cancelled>>
    /\ UNCHANGED <<convVars, cacheVars, paramVars, dumpVars>>

\* ch <- chunk meets the receive of `for res := range ch`
ProducerSend ==
    /\ prodPc = "send"
    /\ consPc = "recv"
    /\ ProcessAlive
    /\ ~chClosed
    /\ sentChunks' = Append(sentChunks, prodVal)
    /\ consVal' = prodVal
    /\ consPc' = "write"
    /\ prodPc' = "next"
    /\ prodVal' = <<>>
    /\ UNCHANGED <<stream, failAt, pulled, iterErr, chClosed, closeCount, written,
                   cancelled, pullsAfterCancel>>
    /\ UNCHANGED <<convVars, cacheVars, paramVars, dumpVars>>

DataEvent(res) == [event |-> "data", data |-> res]

\* a plausible slip: the chunk that carries the stop reason is taken for the
\* end marker and not written
RelaySkipStop(w, res) ==
    IF \E i \in 1..Len(res.Choices) : res.Choices[i].FinishReason = "stop"
    THEN w ELSE Append(w, DataEvent(res))

\* fmt.Fprintf(w, "data: %s \n\n", b): one event per received chunk
Relay(w, res) == Append(w, DataEvent(res))

\* the body of the relay loop: json.Marshal, then the write; a Marshal error
\* is answered with http.Error(500) and the handler returns
ConsumerWrite ==
    /\ consPc = "write"
    /\ ProcessAlive
    /\ \E marshalOk \in BOOLEAN :
        IF marshalOk
        THEN /\ written' = Relay(written, consVal)
             /\ consPc' = "recv"
        ELSE /\ written' = Append(written, [event |-> "error",
                                            data |-> "StatusInternalServerError"])
             /\ consPc' = "returned"
    /\ consVal' = <<>>
    /\ UNCHANGED <<stream, failAt, pulled, iterErr, prodPc, prodVal, chClosed,
                   closeCount, sentChunks, cancelled, pullsAfterCancel>>
    /\ UNCHANGED <<convVars, cacheVars, paramVars, dumpVars>>

\* the range ends on the closed channel; fmt.Fprint(w, "data: [DONE] \n\n")
ConsumerDone ==
    /\ consPc = "recv"
    /\ chClosed
    /\ ProcessAlive
    /\ written' = Append(written, [event |-> "done", data |-> "[DONE]"])
    /\ consPc' = "returned"
    /\ UNCHANGED <<stream, failAt, pulled, iterErr, prodPc, prodVal, chClosed,
                   closeCount, sentChunks, consVal, cancelled, pullsAfterCancel>>
    /\ UNCHANGED <<convVars, cacheVars, paramVars, dumpVars>>

\* the client goes away: the request's context is cancelled
Cancel ==
    /\ outcome = "streaming"
    /\ ProcessAlive
    /\ ~cancelled
    /\ prodPc \in {"next", "send"}
    /\ cancelled' = TRUE
    /\ UNCHANGED <<stream, failAt, pulled, iterErr, prodPc, prodVal, chClosed,
                   closeCount, sentChunks, consPc, consVal, written, pullsAfterCancel>>
    /\ UNCHANGED <<convVars, cacheVars, paramVars, dumpVars>>

StreamInit ==
    /\ ConvInit
    /\ CacheIdle
    /\ ParamIdle
    /\ DumpIdle
    /\ stream \in Streams
    /\ failAt \in -1..Len(stream)
    /\ pulled = 0
    /\ iterErr = FALSE
    /\ prodPc = "idle"
    /\ prodVal = <<>>
    /\ chClosed = FALSE
    /\ closeCount = 0
    /\ sentChunks = <<>>
    /\ consPc = "call"
    /\ consVal = <<>>
    /\ written = <<>>
    /\ cancelled = FALSE
    /\ pullsAfterCancel = 0

StreamNext ==
    \/ StreamCall
    \/ ProducerNext
    \/ ProducerSend
    \/ ConsumerWrite
    \/ ConsumerDone
    \/ Cancel

SpecStream == StreamInit /\ [][StreamNext]_vars


(***************************************************************************)
(* Properties of streaming, checked under SpecStream.                      *)
(***************************************************************************)
TextOnly(s) ==
    \A i \in 1..Len(s) : \A c \in 1..Len(s[i]) :
        \A j \in 1..Len(s[i][c].Parts) : s[i][c].Parts[j].kind = "Text"
IsData(e) == e.event = "data"
WrittenChunks == SelectSeq(written, IsData)

\* C6: the channel is closed at most once and only when the iterator is
\* exhausted; from then on the producer is done and exactly as many chunks
\* as the stream has increments were sent, so none is sent after the close;
\* and a producer fed text increments, with no iterator error and no
\* cancellation, never ends any other way.
C6_KChunksThenClose ==
    /\ closeCount <= 1
    /\ chClosed <=> (closeCount = 1)
    /\ Len(sentChunks) <= Len(stream)
    /\ chClosed => (prodPc = "done" /\ Len(sentChunks) = Len(stream))
    /\ prodPc = "done" => chClosed
    /\ (failAt = -1 /\ TextOnly(stream) /\ ~cancelled) => prodPc # "panic"

\* C6 witness: a stream of MaxIncr increments was sent in full and the channel
\* was closed.
C6_Witness ==
    /\ Len(stream) = MaxIncr
    /\ Len(sentChunks) = MaxIncr
    /\ chClosed
    /\ prodPc = "done"

\* C7: after the iterator returned an error other than exhaustion (with no
\* cancellation involved) the producer has closed the channel and ended
\* without a panic.
C7_ErrorStillClosesChannel ==
    (iterErr /\ ~cancelled) => (chClosed /\ prodPc = "done")

\* C8: the chunks written to the client are, position by position, the chunks
\* derived from the provider's increments: the i-th written chunk has the
\* choices of the i-th increment (index, joined text, mapped finish reason),
\* and every chunk received so far has been written before the next receive.
C8_WrittenInProviderOrder ==
    /\ Len(WrittenChunks) <= Len(stream)
    /\ \A i \in 1..Len(WrittenChunks) :
          LET cs == WrittenChunks[i].data.Choices IN
          /\ Len(cs) = Len(stream[i])
          /\ \A c \in 1..Len(cs) :
                /\ cs[c].Index = stream[i][c].Index
                /\ cs[c].Content = JoinTexts(stream[i][c].Parts, 1)
                /\ cs[c].FinishReason = toOpenaiFinishReason[stream[i][c].FinishReason]
    /\ consPc = "recv" => Len(WrittenChunks) = Len(sentChunks)

\* C8 witness: two different increments were relayed and the stream ended
\* with the sentinel.
C8_Witness ==
    /\ Len(stream) = MaxIncr
    /\ stream[1] # stream[MaxIncr]
    /\ Len(WrittenChunks) = MaxIncr
    /\ written[Len(written)].event = "done"

\* C9: once the request's context is cancelled the producer begins no further
\* iter.Next() and does not panic.
C9_CancelStopsProducer ==
    cancelled => (pullsAfterCancel = 0 /\ prodPc # "panic")

\* C13: when an increment pulled from the iterator (the iterator itself did
\* not fail) holds a part that is not text, the producer does not panic: the
\* process stays up and no chunk is sent for that increment.
C13_NonTextIsReportedError ==
    (pulled > 0 /\ ~iterErr /\ ~TextOnly(<<stream[pulled]>>)) =>
        /\ prodPc # "panic"
        /\ ProcessAlive
        /\ Len(sentChunks) < pulled
IsDone(e) == e.event = "done"
\* the relay's part in the stream is over: the handler returned, or the
\* process died under it
StreamOver == consPc = "returned" \/ ~ProcessAlive

\* C25: once the stream of a request whose ChatCompletionStream call
\* succeeded is over, exactly one [DONE] event was written, it is the last
\* event written, and every chunk of the stream was written before it.
C25_ExactlyOneDoneLast ==
    (outcome = "streaming" /\ StreamOver) =>
        /\ Len(SelectSeq(written, IsDone)) = 1
        /\ written[Len(written)].event = "done"
        /\ Len(WrittenChunks) = Len(stream)

\* C30: the producer is never left blocked on a channel send that no
\* receiver will take: the relay loop has returned while the producer waits
\* to hand over a chunk.
C30_ProducerNeverBlockedForever ==
    ~(prodPc = "send" /\ consPc = "returned")


(***************************************************************************)
(* Request dumps: the handler of main.go writes the body of a request      *)
(* through WriteIfNotExists; requests are served concurrently, one         *)
(* goroutine each.  The file system calls are taken to succeed.            *)
(***************************************************************************)
\* WriteIfNotExists' return: the call is over and the request may be
\* followed by another one
WriteReturned(w) == wpc' = [wpc EXCEPT ![w] = "idle"]

\* openaiHandler.ChatCompletion calls WriteIfNotExists(name, body)
WriteIfNotExists(w) ==
    /\ wpc[w] = "idle"
    /\ \E n \in DumpNames : \E b \in DumpBodies :
          /\ wname' = [wname EXCEPT ![w] = n]
          /\ wbody' = [wbody EXCEPT ![w] = b]
    /\ wpc' = [wpc EXCEPT ![w] = "open"]
    /\ UNCHANGED <<files, dirMade>>
    /\ UNCHANGED <<convVars, cacheVars, streamVars, paramVars>>

\* os.OpenFile(name, os.O_RDONLY, 0644): the file is there and the call
\* returns nil, or it is not and the call goes on to create it
OpenFile(w) ==
    /\ wpc[w] = "open"
    /\ IF files[wname[w]] = NoFile
         THEN wpc' = [wpc EXCEPT ![w] = "mkdir"]
         ELSE WriteReturned(w)
    /\ UNCHANGED <<files, dirMade, wname, wbody>>
    /\ UNCHANGED <<convVars, cacheVars, streamVars, paramVars>>

\* os.MkdirAll(dir, 0700)
MkdirAll(w) ==
    /\ wpc[w] = "mkdir"
    /\ dirMade' = TRUE
    /\ wpc' = [wpc EXCEPT ![w] = "create"]
    /\ UNCHANGED <<files, wname, wbody>>
    /\ UNCHANGED <<convVars, cacheVars, streamVars, paramVars>>

\* os.WriteFile, first half: open with O_WRONLY|O_CREATE|O_TRUNC, which
\* empties a file that is there
WriteFileTruncate(w) ==
    /\ wpc[w] = "create"
    /\ files' = [files EXCEPT ![wname[w]] = ""]
    /\ wpc' = [wpc EXCEPT ![w] = "write"]
    /\ UNCHANGED <<dirMade, wname, wbody>>
    /\ UNCHANGED <<convVars, cacheVars, streamVars, paramVars>>

\* os.WriteFile, second half: write the body and close
WriteFileWrite(w) ==
    /\ wpc[w] = "write"
    /\ files' = [files EXCEPT ![wname[w]] = wbody[w]]
    /\ WriteReturned(w)
    /\ UNCHANGED <<dirMade, wname, wbody>>
    /\ UNCHANGED <<convVars, cacheVars, streamVars, paramVars>>

DumpNext ==
    \E w \in Dumps :
        \/ WriteIfNotExists(w)
        \/ OpenFile(w)
        \/ MkdirAll(w)
        \/ WriteFileTruncate(w)
        \/ WriteFileWrite(w)

SpecDump == Init /\ [][DumpNext]_vars

\* C26: WriteIfNotExists writes once: a file that holds a dumped body keeps
\* that content in every later step, also when two requests call it
\* concurrently with the same name.
C26_WriteOnce ==
    [][\A n \in DumpNames :
          files[n] \in DumpBodies => files'[n] = files[n]]_vars


(***************************************************************************)
(* The single-client server variant (part_001): gemini.ChatCompletion      *)
(* configures the model of its one client, merges the messages inline,     *)
(* maps them, puts the synthetic turn in front and sends the last turn.    *)
(***************************************************************************)
roleUser == "user"
roleModel == "model"

toGeminiRole ==
    ("system" :> roleModel) @@ ("assistant" :> roleModel) @@ ("user" :> roleUser)

\* lastMsg.Content += " " + msg.Content on msgs[len(msgs)-1]
InlineMerged(msgs, msg) ==
    [msgs EXCEPT ![Len(msgs)].Content = @ \o " " \o msg.Content]

RECURSIVE InlineMergeLoop(_, _, _, _)
\* the loop over req.Messages[i..]: lastRole is compared with the mapped role
\* and assigned the message's own role
InlineMergeLoop(reqMsgs, i, lastRole, msgs) ==
    IF i > Len(reqMsgs) THEN [st |-> "ok", msgs |-> msgs]
    ELSE LET msg == reqMsgs[i] IN
         IF msg.Role \notin DOMAIN toGeminiRole
         THEN [st |-> "error", msgs |-> <<>>]
         ELSE IF toGeminiRole[msg.Role] = lastRole
              THEN InlineMergeLoop(reqMsgs, i + 1, lastRole, InlineMerged(msgs, msg))
              ELSE InlineMergeLoop(reqMsgs, i + 1, msg.Role, Append(msgs, msg))

\* contents[i] = &genai.Content{Role: toGeminiRole[role], Parts: {Text(content)}}
InlineContents(msgs) ==
    [i \in 1..Len(msgs) |->
        Content(toGeminiRole[msgs[i].Role], <<Text(msgs[i].Content)>>)]

\* the first message must be from role user: the synthetic turn is put in
\* front when it is not
InlineFixed(contents) ==
    IF contents[1].Role # roleUser
    THEN <<Content(roleUser, <<Text("I will ask you a question. Please answer it.")>>)>>
             \o contents
    ELSE contents

\* last, contents = contents[len-1], contents[:len-1]; sc.History = contents;
\* the send-call gets genai.Text(mergeText(last.Parts))
InlineSent(msgs, contents, fixedUp) ==
    Prep("ok", "", <<"model", "merge", "map", "fixup", "send">>, msgs, contents,
         fixedUp, SubSeq(fixedUp, 1, Len(fixedUp) - 1),
         <<Text(mergeText(fixedUp[Len(fixedUp)].Parts).text)>>, clients, {})

\* after the mapping loop: contents[0] of an empty list is a runtime panic
InlineMapped(msgs, contents) ==
    IF Len(contents) = 0
    THEN Prep("panic", "", <<"model", "merge", "map", "fixup">>, msgs, contents,
              <<>>, <<>>, <<>>, clients, {})
    ELSE InlineSent(msgs, contents, InlineFixed(contents))

\* after the merge loop: an unknown role is returned as ErrInvalidParams
InlinePrepare(m) ==
    IF m.st # "ok"
    THEN Prep("error", "ErrInvalidParams", <<"model", "merge">>, <<>>, <<>>, <<>>,
              <<>>, <<>>, clients, {})
    ELSE InlineMapped(m.msgs, InlineContents(m.msgs))

\* part_001 toGeminiResponse, the code of main.go genaiToOpenaiResponse
toGeminiResponse(cands) == genaiToOpenaiResponse(cands)

\* a request served by gemini.ChatCompletion of part_001, p its prepared form
InlineCompleted(msgs, p) ==
    /\ Prepared("gemini.ChatCompletion (part_001)", msgs, {}, p)
    /\ \E reply \in ProviderReplies :
          Replied(p, reply, toGeminiResponse(reply.cands))

\* part_001 gemini.ChatCompletion
InlineChatCompletion ==
    /\ outcome = "idle"
    /\ \E msgs \in Requests :
          InlineCompleted(msgs, InlinePrepare(InlineMergeLoop(msgs, 1, "", <<>>)))
    /\ UNCHANGED <<streamVars, paramVars, dumpVars>>

InlineNext == InlineChatCompletion \/ NextRequest

SpecInline == Init /\ [][InlineNext]_vars

\* C32: for every request with known roles served by gemini.ChatCompletion of
\* part_001 the turn list is built and no two adjacent turns of it have the
\* same provider party.
C32_InlineNoAdjacentSameParty ==
    (/\ handler = "gemini.ChatCompletion (part_001)"
     /\ \A i \in 1..Len(req) : req[i].Role \in DOMAIN toGeminiRole) =>
        /\ Returned("map")
        /\ \A i \in 1..(Len(mapped) - 1) : mapped[i].Role # mapped[i + 1].Role

====
